---- MODULE Spec2Model ----
(***************************************************************************)
(* A model of the ViTFOX parametric mask generator.                        *)
(*                                                                         *)
(* Lengths are integers in nanometres (the unit of um_to_str); every       *)
(* length the model draws is a whole number of microns, so the halves the  *)
(* code takes (x/2) are exact.  A polygon is kept by what the code reads   *)
(* of it: its kind, its layer/datatype, its size and origin, and its       *)
(* bounding box <<x0, y0, x1, y1>>.                                        *)
(***************************************************************************)
EXTENDS Integers, Sequences, FiniteSets, TLC

VARIABLES
    config,     \* the process-wide module `config` (a record of its globals)
    call,       \* the feature-level call being made: its name and arguments
    out,        \* what that call did: cells constructed, error raised, value returned
    again,      \* what the same call did when made a second time
    cells,      \* the Cell objects of a design: cells[i] is the i-th, cells[1] the root
    lib,        \* lib.cells of the gdstk.Library the collector fills (Cell objects, in order)
    examined,   \* history: the Cells add_children came upon, in the order it did
    top,        \* the root Cell of the design (its place in cells; 0 before it exists)
    devs,       \* dev0, dev1, dev2, short0 of the build script (their places in cells)
    pc,         \* the position of the build script
    flat_top,   \* flat_top: its polygons, paths and labels
    mapping,    \* mapping: the insertion-ordered dict, as its items [ld, polygons]
    idx,        \* the position of the loop the script is in
    processed_layers,   \* processed_layers of the boundary pass
    flat_cell,  \* flat_cell, once assembled (a sequence of at most one Cell)
    outfile,    \* the cells of the layout file, once written
    log         \* history: the stages run, <<stage, physical id>>

vars == <<config, call, out, again, cells, lib, examined, top, devs,
          pc, flat_top, mapping, idx, processed_layers, flat_cell, outfile, log>>
featVars == <<config, call, out, again>>
libVars == <<cells, lib, examined, top, devs>>
pipeVars == <<pc, flat_top, mapping, idx, processed_layers, flat_cell, outfile, log>>

\* ---------------------------------------------------------------- bounds
MaxUVL == 3          \* config.UVL ranges over 1..MaxUVL um
MaxMesa == 30        \* mesa sizes range over 1..MaxMesa um
MaxVia == 4          \* via sizes range over 1..MaxVia um
MaxExtent == 3       \* device widths range over 20*(1..MaxExtent) um
MaxPad == 24         \* pad sizes range over 2*(10..MaxPad) um
MaxCoord == 1        \* router points range over -MaxCoord..MaxCoord um
MaxCells == 4        \* Cell objects in a design
MaxRefs == 3         \* References in a design, over all its Cells
MaxNames == 3        \* distinct cell names in a design
MaxLayers == 2       \* logical layers in a drawn layer table
MaxShapes == 2       \* shapes in a drawn root Cell
MaxStart == 1        \* drawn shapes are centred at 0..MaxStart um
MaxVector == 2       \* devices in a vector

\* ------------------------------------------------------------- utilities
Abs(x) == IF x < 0 THEN -x ELSE x
Min(a, b) == IF a < b THEN a ELSE b
Max(a, b) == IF a > b THEN a ELSE b

\* um_to_str: int(um * 1e3), microns to nanometres
um_to_str(um) == um * 1000

None == [none |-> TRUE]

\* ---------------------------------------------------------------- config
\* config.layers: an insertion-ordered dict, kept as the sequence of its items
layers_default ==
    << <<"M0", 0, 0, "fill">>, <<"M1", 1, 0, "fill">>, <<"M2", 11, 0, "boundary">>,
       <<"W1", 10, 0, "boundary">>, <<"W2", 11, 0, "boundary">>, <<"V1", 21, 0, "fill">>,
       <<"V2", 22, 0, "fill">>, <<"V3", 23, 0, "fill">>, <<"V4", 24, 0, "fill">>,
       <<"label", 50, 0, "fill">> >>

UVL == 2                    \* um
EBL == 50                   \* nm (0.05 um)
wire_width == 3             \* um
boundary_width == 1         \* um
pad_dim == 50               \* um
pad_device_spacing == 10    \* um

\* the module config as config.py leaves it (lengths in nm)
config_py ==
    [layers |-> layers_default, UVL |-> um_to_str(UVL), EBL |-> EBL,
     wire_width |-> um_to_str(wire_width), boundary_width |-> um_to_str(boundary_width),
     pad_dim |-> um_to_str(pad_dim), pad_device_spacing |-> um_to_str(pad_device_spacing)]

\* config.layers[name]: the (layer, datatype) the code sets on a polygon;
\* "KeyError" when the name is not a key
HasLayer(cfg, name) == \E i \in 1..Len(cfg.layers) : cfg.layers[i][1] = name
LayerOf(cfg, name) ==
    IF HasLayer(cfg, name)
    THEN LET i == CHOOSE j \in 1..Len(cfg.layers) : cfg.layers[j][1] = name
         IN  <<cfg.layers[i][2], cfg.layers[i][3]>>
    ELSE "KeyError"

\* -------------------------------------------------------------- geometry
\* geom.octagon(x, y, origin) followed by geom.set_layer_datatype
octagon(x, y, origin, ld) ==
    [kind |-> "octagon", layer |-> ld, size |-> <<x, y>>, origin |-> origin,
     bbox |-> <<origin[1] - Abs(x) \div 2, origin[2] - Abs(y) \div 2,
                origin[1] + Abs(x) \div 2, origin[2] + Abs(y) \div 2>>]

\* the point p lies in the octagon of size (x, y) around origin: inside the
\* rectangle and inside the four cut corners, whose edges join (x/3, y/2) and
\* (x/2, y/3), i.e. 6*(|dx|*y + |dy|*x) <= 5*x*y
InOctagon(p, o) ==
    LET dx == Abs(p[1] - o.origin[1])
        dy == Abs(p[2] - o.origin[2])
        x  == Abs(o.size[1])
        y  == Abs(o.size[2])
    IN  /\ 2 * dx <= x
        /\ 2 * dy <= y
        /\ 6 * (dx * y + dy * x) <= 5 * x * y

\* gdstk.rectangle(corner1, corner2)
gdstk_rectangle(c1, c2, ld) ==
    [kind |-> "rectangle", layer |-> ld,
     size |-> <<Abs(c2[1] - c1[1]), Abs(c2[2] - c1[2])>>,
     origin |-> <<(c1[1] + c2[1]) \div 2, (c1[2] + c2[2]) \div 2>>,
     bbox |-> <<Min(c1[1], c2[1]), Min(c1[2], c2[2]), Max(c1[1], c2[1]), Max(c1[2], c2[2])>>]

\* geom.rectangle(x, y, origin)
rectangle(x, y, origin, ld) ==
    gdstk_rectangle(<<origin[1] - x \div 2, origin[2] - y \div 2>>,
                    <<origin[1] + x \div 2, origin[2] + y \div 2>>, ld)

\* route_90deg with the two corners exchanged
route_90deg_swapped(c0, c1, method) ==
    CASE method = "-|" -> [raised |-> "none", ret |-> <<c0, <<c0[1], c1[2]>>, c1>>]
      [] method = "|-" -> [raised |-> "none", ret |-> <<c0, <<c1[1], c0[2]>>, c1>>]
      [] OTHER         -> [raised |-> "ValueError: Unknown routing method", ret |-> None]

\* geom.route_90deg(c0, c1, method)
route_90deg(c0, c1, method) ==
    CASE method = "-|" -> [raised |-> "none", ret |-> <<c0, <<c1[1], c0[2]>>, c1>>]
      [] method = "|-" -> [raised |-> "none", ret |-> <<c0, <<c0[1], c1[2]>>, c1>>]
      [] OTHER         -> [raised |-> "ValueError: Unknown routing method", ret |-> None]

\* --------------------------------------------------------------- features
\* feat.make_wire(points, width, level): a FlexPath with flush ends; its
\* bounding box is that of its segments, each widened by width/2 across
RECURSIVE PathBBox(_, _, _)
PathBBox(points, width, i) ==
    LET a == points[i]
        b == points[i + 1]
        h == width \div 2
        horiz == a[2] = b[2]
        seg == IF horiz
               THEN <<Min(a[1], b[1]), a[2] - h, Max(a[1], b[1]), a[2] + h>>
               ELSE <<Min(a[1], b[1]) - h, Min(a[2], b[2]), Max(a[1], b[1]) + h, Max(a[2], b[2])>>
    IN  IF i + 1 >= Len(points) THEN seg
        ELSE LET r == PathBBox(points, width, i + 1)
             IN  <<Min(seg[1], r[1]), Min(seg[2], r[2]), Max(seg[3], r[3]), Max(seg[4], r[4])>>

make_wire(cfg, points, width, level) ==
    [kind |-> "path", layer |-> LayerOf(cfg, level), points |-> points, width |-> width,
     bbox |-> PathBBox(points, width, 1)]

\* gdstk.Reference(cell, origin); the cell is named by its place on the heap
Reference(cell, origin) == [cell |-> cell, origin |-> origin]

\* gdstk.Cell(name) with the shapes and references added to it
Cell(name, shapes, references) ==
    [name |-> name, shapes |-> shapes, references |-> references]

\* feat.make_lower_pad(size_x, size_y, tol, via).  The Cell is constructed and
\* the bottom octagon added before the size is looked at, and the size is
\* looked at only under `if via:`
make_lower_pad(cfg, size_x, size_y, tol, via) ==
    LET name == <<"LowerPad", size_x, size_y>>
        pad_metal_bot == octagon(size_x, size_y, <<0, 0>>, LayerOf(cfg, "W1"))
        pad0 == Cell(name, <<pad_metal_bot>>, <<>>)
        pad_via2 == octagon(size_x - 2 * cfg.UVL, size_y - 2 * cfg.UVL, <<0, 0>>, LayerOf(cfg, "V2"))
        pad_via4 == octagon(size_x - 2 * cfg.UVL, size_y - 2 * cfg.UVL, <<0, 0>>, LayerOf(cfg, "V4"))
        pad_metal_top == octagon(size_x, size_y, <<0, 0>>, LayerOf(cfg, "W2"))
        pad1 == Cell(name, <<pad_metal_bot, pad_via2, pad_via4, pad_metal_top>>, <<>>)
    IN  IF ~via
        THEN [created |-> <<pad0>>, raised |-> "none", ret |-> pad0]
        ELSE IF Min(size_x, size_y) - 4 * cfg.UVL < tol
             THEN [created |-> <<pad0>>, raised |-> "ValueError: Pad size too small.", ret |-> None]
             ELSE [created |-> <<pad1>>, raised |-> "none", ret |-> pad1]

\* feat.make_upper_pad(size_x, size_y, tol)
make_upper_pad(cfg, size_x, size_y, tol) ==
    LET pad_metal == octagon(size_x, size_y, <<0, 0>>, LayerOf(cfg, "W2"))
        pad == Cell(<<"UpperPad", size_x, size_y>>, <<pad_metal>>, <<>>)
    IN  IF Min(size_x, size_y) < tol
        THEN [created |-> <<>>, raised |-> "ValueError: Pad size too small.", ret |-> None]
        ELSE [created |-> <<pad>>, raised |-> "none", ret |-> pad]

\* the feasibility test with >= for >
ExceedsExtent_ge(cfg, mesa_size, via_size, device_extent) ==
    2 * via_size + 8 * cfg.UVL + mesa_size + 2 * cfg.UVL >= device_extent[1] - 4 * cfg.UVL

\* the feasibility test of make_ferro_device (features.py line 155)
ExceedsExtent(cfg, mesa_size, via_size, device_extent) ==
    2 * via_size + 8 * cfg.UVL + mesa_size + 2 * cfg.UVL > device_extent[1] - 4 * cfg.UVL

\* gdstk.boolean(FE, via_FE, "not"): the rectangle with the octagon cut out;
\* the list is empty when the rectangle has no area or lies in the octagon
FE_not_via(FE, via_FE) ==
    IF \/ FE.bbox[1] = FE.bbox[3]
       \/ FE.bbox[2] = FE.bbox[4]
       \/ \A p \in {<<FE.bbox[1], FE.bbox[2]>>, <<FE.bbox[1], FE.bbox[4]>>,
                    <<FE.bbox[3], FE.bbox[2]>>, <<FE.bbox[3], FE.bbox[4]>>} : InOctagon(p, via_FE)
    THEN <<>>
    ELSE << [kind |-> "rectangle_not_octagon", layer |-> <<0, 0>>, size |-> FE.size,
             origin |-> FE.origin, bbox |-> FE.bbox, hole |-> via_FE] >>

\* top_connection placed without the via's own size
top_connection_no_via(cfg, via_size, device_extent) ==
    <<(0 - device_extent[1]) \div 2 + 4 * cfg.UVL, 0>>

\* top_connection (features.py line 173)
top_connection_of(cfg, via_size, device_extent) ==
    <<(0 - device_extent[1]) \div 2 + via_size + 4 * cfg.UVL, 0>>

\* via_centre, which is bottom_connection (features.py lines 190-191)
via_centre_of(cfg, via_size, device_extent) ==
    <<device_extent[1] \div 2 - via_size - 4 * cfg.UVL, 0>>

\* feat.make_ferro_device(mesa_size, via_size, device_extent, short).  A
\* config.layers[...] of a name the table lacks raises KeyError, after the
\* device Cell was created and the batches before that lookup were added.
make_ferro_device(cfg, mesa_size, via_size, device_extent, short) ==
    LET U == cfg.UVL
        name == <<"FerroelectricDevice", mesa_size, via_size>>
        name_short == <<"FerroelectricDevice", mesa_size, via_size, "short">>
        mesa_centre == <<0, 0>>
        mesa_m0 == octagon(mesa_size, mesa_size, mesa_centre, LayerOf(cfg, "M0"))
        via_passivation == octagon(mesa_size - 2 * cfg.EBL, mesa_size - 2 * cfg.EBL,
                                   mesa_centre, LayerOf(cfg, "V3"))
        mesa_m2 == octagon(mesa_size + 2 * U, mesa_size + 2 * U, mesa_centre, LayerOf(cfg, "M2"))
        top_connection == top_connection_of(cfg, via_size, device_extent)
        wire_LP_D == make_wire(cfg, <<top_connection, mesa_centre>>, cfg.wire_width, "M2")
        via_m2 == octagon(via_size + 2 * U, via_size + 2 * U, top_connection, LayerOf(cfg, "M2"))
        via_etch_top == octagon(via_size, via_size, top_connection, LayerOf(cfg, "V2"))
        via_bot_pad_top == octagon(via_size + 2 * U, via_size + 2 * U, top_connection, LayerOf(cfg, "W1"))
        via_p_bot_pad == octagon(via_size + 2 * U, via_size + 2 * U, top_connection, LayerOf(cfg, "V4"))
        via_centre == via_centre_of(cfg, via_size, device_extent)
        bottom_connection == via_centre
        via_FE == octagon(via_size + 2 * U, via_size + 2 * U, via_centre, LayerOf(cfg, "V1"))
        via_etch == octagon(via_size, via_size, via_centre, LayerOf(cfg, "V2"))
        mesa_m1 == octagon(via_size + 4 * U, via_size + 4 * U, via_centre, LayerOf(cfg, "M1"))
        via_bot_pad == octagon(via_size + 2 * U, via_size + 2 * U, via_centre, LayerOf(cfg, "W1"))
        \* FE extent
        N == Max(mesa_m0.bbox[4], mesa_m1.bbox[4]) + U
        W == mesa_m0.bbox[1] - U
        S == Min(mesa_m0.bbox[2], mesa_m1.bbox[2]) - U
        E == mesa_m1.bbox[3] + U
        FE_list == FE_not_via(gdstk_rectangle(<<W, S>>, <<E, N>>, <<0, 0>>), via_FE)
        FE == [FE_list[1] EXCEPT !.layer = LayerOf(cfg, "V1")]
        short_shape == [FE EXCEPT !.layer = LayerOf(cfg, "M1")]
        \* line 206 adds wire_LP_D again: bottom_connection is via_centre, so the
        \* name still holds the wire of the top terminal
        body == <<mesa_m0, via_passivation, mesa_m2,
                  via_bot_pad_top, via_etch_top, via_p_bot_pad, wire_LP_D, via_m2,
                  via_etch, mesa_m1, via_bot_pad, wire_LP_D>>
        made(shapes) ==
            IF short THEN <<Cell(name, <<>>, <<>>), Cell(name_short, shapes, <<>>)>>
                     ELSE <<Cell(name, shapes, <<>>)>>
    IN  IF ExceedsExtent(cfg, mesa_size, via_size, device_extent)
        THEN [created |-> <<>>, raised |-> "ValueError: Component dimensions exceed device_extent.",
              ret |-> None]
        ELSE IF \E n \in {"M0", "V3", "M2"} : ~HasLayer(cfg, n)
        THEN [created |-> made(<<>>), raised |-> "KeyError", ret |-> None]
        ELSE IF \E n \in {"V2", "W1", "V4"} : ~HasLayer(cfg, n)
        THEN [created |-> made(SubSeq(body, 1, 3)), raised |-> "KeyError", ret |-> None]
        ELSE IF \E n \in {"V1", "M1"} : ~HasLayer(cfg, n)
        THEN [created |-> made(SubSeq(body, 1, 8)), raised |-> "KeyError", ret |-> None]
        ELSE IF FE_list = <<>>
        THEN [created |-> made(body), raised |-> "IndexError", ret |-> None]
        ELSE LET shapes == IF short THEN body \o <<FE, short_shape>> ELSE body \o <<FE>>
                 built == made(shapes)
             IN  [created |-> built, raised |-> "none",
                  ret |-> [device |-> built[Len(built)], bottom_connection |-> bottom_connection,
                           top_connection |-> top_connection]]

\* ------------------------------------------------- the feature-level calls
\* config.UVL is any clearance of the range; the rest of config is config.py's
FeatConfigs == {[config_py EXCEPT !.UVL = um_to_str(u)] : u \in 1..MaxUVL}
MesaSizes == {um_to_str(k) : k \in 1..MaxMesa}
ViaSizes == {um_to_str(k) : k \in 1..MaxVia}
Extents == {<<um_to_str(20 * w), um_to_str(h)>> : w \in 1..MaxExtent, h \in {10, 40}}
PadSizes == {um_to_str(2 * k) : k \in 10..MaxPad}
Tols == {um_to_str(30), um_to_str(40)}
Points == {<<um_to_str(x), um_to_str(y)>> : x \in (0 - MaxCoord)..MaxCoord, y \in (0 - MaxCoord)..MaxCoord}
Methods == {"-|", "|-", "--", "|", ""}

NoCall == [fn |-> "none"]
NotMade == [created |-> <<>>, raised |-> "not called", ret |-> None]

LibIdle == cells = <<>> /\ lib = <<>> /\ examined = <<>> /\ top = 0 /\ devs = <<>>
NoFlat == [polygons |-> <<>>, paths |-> <<>>, labels |-> <<>>]
PipeIdle ==
    /\ pc = "idle"
    /\ flat_top = NoFlat
    /\ mapping = <<>>
    /\ idx = 0
    /\ processed_layers = <<>>
    /\ flat_cell = <<>>
    /\ outfile = <<>>
    /\ log = <<>>

InitFeat ==
    /\ config \in FeatConfigs
    /\ call = NoCall
    /\ out = None
    /\ again = NotMade
    /\ LibIdle
    /\ PipeIdle

Call_make_ferro_device ==
    /\ call = NoCall
    /\ \E mesa_size \in MesaSizes, via_size \in ViaSizes, device_extent \in Extents, short \in BOOLEAN :
         /\ call' = [fn |-> "make_ferro_device", mesa_size |-> mesa_size, via_size |-> via_size,
                     device_extent |-> device_extent, short |-> short]
         /\ out' = make_ferro_device(config, mesa_size, via_size, device_extent, short)
    /\ UNCHANGED <<config, again, libVars, pipeVars>>

\* size_y is omitted (None) or given; omitted, it is size_x
Call_make_lower_pad ==
    /\ call = NoCall
    /\ \E size_x \in PadSizes, size_y \in PadSizes, omit \in BOOLEAN, tol \in Tols, via \in BOOLEAN :
         LET y == IF omit THEN size_x ELSE size_y
         IN  /\ call' = [fn |-> "make_lower_pad", size_x |-> size_x, size_y |-> y, tol |-> tol, via |-> via]
             /\ out' = make_lower_pad(config, size_x, y, tol, via)
    /\ UNCHANGED <<config, again, libVars, pipeVars>>

Call_make_upper_pad ==
    /\ call = NoCall
    /\ \E size_x \in PadSizes, size_y \in PadSizes, omit \in BOOLEAN, tol \in Tols :
         LET y == IF omit THEN size_x ELSE size_y
         IN  /\ call' = [fn |-> "make_upper_pad", size_x |-> size_x, size_y |-> y, tol |-> tol]
             /\ out' = make_upper_pad(config, size_x, y, tol)
    /\ UNCHANGED <<config, again, libVars, pipeVars>>

Call_route_90deg ==
    /\ call = NoCall
    /\ \E c0 \in Points, c1 \in Points, method \in Methods :
         /\ call' = [fn |-> "route_90deg", c0 |-> c0, c1 |-> c1, method |-> method]
         /\ LET r == route_90deg(c0, c1, method)
            IN  out' = [created |-> <<>>, raised |-> r.raised,
                        ret |-> IF r.raised = "none" THEN [points |-> r.ret] ELSE None]
    /\ UNCHANGED <<config, again, libVars, pipeVars>>

NextFeat ==
    \/ Call_make_ferro_device
    \/ Call_make_lower_pad
    \/ Call_make_upper_pad
    \/ Call_route_90deg

SpecFeat == InitFeat /\ [][NextFeat]_vars

\* ===================================================== claims on features
DimensionError == "ValueError: Component dimensions exceed device_extent."
PadTooSmall == "ValueError: Pad size too small."
InvalidRoutingMode == "ValueError: Unknown routing method"

\* the inequality of the device stack's validation, on the arguments of the call
Infeasible ==
    2 * call.via_size + 8 * config.UVL + call.mesa_size + 2 * config.UVL
        > call.device_extent[1] - 4 * config.UVL

\* C1: make_ferro_device raises the dimension error exactly when
\* 2*via_size + 8*UVL + mesa_size + 2*UVL > device_extent.width - 4*UVL, then
\* with no Cell constructed; otherwise it succeeds and returns
\* (device Cell, bottom_connection, top_connection).
C1_DimensionErrorExactly ==
    call.fn = "make_ferro_device" =>
        /\ (out.raised = DimensionError) <=> Infeasible
        /\ Infeasible => out.created = <<>> /\ out.ret = None
        /\ ~Infeasible =>
              /\ out.raised = "none"
              /\ DOMAIN out.ret = {"device", "bottom_connection", "top_connection"}
              /\ out.ret.device = out.created[Len(out.created)]
              /\ Len(out.ret.device.shapes) >= 13
              /\ out.ret.bottom_connection \in Int \X Int
              /\ out.ret.top_connection \in Int \X Int

\* the error one micron past the limit, and nothing built
C1_Witness ==
    /\ call.fn = "make_ferro_device"
    /\ 2 * call.via_size + 10 * config.UVL + call.mesa_size
           = call.device_extent[1] - 4 * config.UVL + 1000
    /\ out.raised = DimensionError
    /\ out.created = <<>>

\* C2: route_90deg returns exactly the 3 points p0, corner, p1, the corner
\* being (p1.x, p0.y) for "-|" and (p0.x, p1.y) for "|-", also when p0 and p1
\* share a coordinate; any other mode raises the invalid-routing-mode error
\* and returns nothing.
C2_RouteThreePoints ==
    call.fn = "route_90deg" =>
        /\ call.method = "-|" =>
              out.raised = "none" /\ out.ret.points = <<call.c0, <<call.c1[1], call.c0[2]>>, call.c1>>
        /\ call.method = "|-" =>
              out.raised = "none" /\ out.ret.points = <<call.c0, <<call.c0[1], call.c1[2]>>, call.c1>>
        /\ call.method \notin {"-|", "|-"} =>
              out.raised = InvalidRoutingMode /\ out.ret = None
        /\ out.raised = "none" => Len(out.ret.points) = 3

\* two distinct points on one vertical line, routed horizontal-first: the
\* first segment has no length and the route still has 3 points
C2_Witness ==
    /\ call.fn = "route_90deg"
    /\ call.method = "-|"
    /\ call.c0[1] = call.c1[1]
    /\ call.c0[2] # call.c1[2]
    /\ out.raised = "none"
    /\ Len(out.ret.points) = 3
    /\ out.ret.points[2] = call.c0

\* C3: make_lower_pad raises the pad-too-small error whenever
\* min(size_x, size_y) - 4*UVL < min_feature, with and without the via, and
\* succeeds otherwise; make_upper_pad raises it exactly when
\* min(size_x, size_y) < min_feature.
C3_PadTooSmallExactly ==
    /\ call.fn = "make_lower_pad" =>
          (out.raised = PadTooSmall) <=> (Min(call.size_x, call.size_y) - 4 * config.UVL < call.tol)
    /\ call.fn = "make_upper_pad" =>
          (out.raised = PadTooSmall) <=> (Min(call.size_x, call.size_y) < call.tol)
    /\ call.fn \in {"make_lower_pad", "make_upper_pad"} => out.raised \in {PadTooSmall, "none"}

\* the bounding box of a Cell's own shapes
MinOf(S) == CHOOSE x \in S : \A y \in S : x <= y
MaxOf(S) == CHOOSE x \in S : \A y \in S : x >= y
BBoxOf(shapes) ==
    <<MinOf({shapes[i].bbox[1] : i \in 1..Len(shapes)}), MinOf({shapes[i].bbox[2] : i \in 1..Len(shapes)}),
      MaxOf({shapes[i].bbox[3] : i \in 1..Len(shapes)}), MaxOf({shapes[i].bbox[4] : i \in 1..Len(shapes)})>>
StrictlyInside(p, bb) == bb[1] < p[1] /\ p[1] < bb[3] /\ bb[2] < p[2] /\ p[2] < bb[4]

\* C9: when the feasibility check passes, top_connection is
\* (-width/2 + via_size + 4*UVL, 0), bottom_connection is
\* (+width/2 - via_size - 4*UVL, 0), and both lie strictly inside the
\* bounding box of the device Cell's geometry.
C9_ConnectionsInsideDevice ==
    (call.fn = "make_ferro_device" /\ ~Infeasible) =>
        LET half == call.device_extent[1] \div 2
            bb == BBoxOf(out.ret.device.shapes)
        IN  /\ out.ret.top_connection = <<call.via_size + 4 * config.UVL - half, 0>>
            /\ out.ret.bottom_connection = <<half - call.via_size - 4 * config.UVL, 0>>
            /\ StrictlyInside(out.ret.bottom_connection, bb)
            /\ StrictlyInside(out.ret.top_connection, bb)

\* a device exactly at the feasibility limit, built
C9_Witness ==
    /\ call.fn = "make_ferro_device"
    /\ 2 * call.via_size + 10 * config.UVL + call.mesa_size = call.device_extent[1] - 4 * config.UVL
    /\ out.raised = "none"
    /\ StrictlyInside(out.ret.bottom_connection, BBoxOf(out.ret.device.shapes))
    /\ StrictlyInside(out.ret.top_connection, BBoxOf(out.ret.device.shapes))

\* the octagons of a device centred on p, and the horizontal hull of shapes
OctagonsAt(cell, p) ==
    {i \in 1..Len(cell.shapes) : cell.shapes[i].kind = "octagon" /\ cell.shapes[i].origin = p}
Left(cell, I) == MinOf({cell.shapes[i].bbox[1] : i \in I})
Right(cell, I) == MaxOf({cell.shapes[i].bbox[3] : i \in I})

\* C10: when the feasibility check passes, the top via stack, the mesa with
\* its bridging-metal enclosure and the bottom via stack have pairwise disjoint
\* horizontal extents inside [-width/2, +width/2], and all geometry lies
\* vertically inside [-height/2, +height/2].
C10_StacksFitSideBySide ==
    (call.fn = "make_ferro_device" /\ ~Infeasible /\ out.raised = "none") =>
        LET dev == out.ret.device
            tvia == OctagonsAt(dev, out.ret.top_connection)
            mesa == OctagonsAt(dev, <<0, 0>>)
            bot == OctagonsAt(dev, out.ret.bottom_connection)
            bb == BBoxOf(dev.shapes)
            hw == call.device_extent[1] \div 2
            hh == call.device_extent[2] \div 2
        IN  /\ Right(dev, tvia) < Left(dev, mesa)
            /\ Right(dev, mesa) < Left(dev, bot)
            /\ 0 - hw <= bb[1] /\ bb[3] <= hw
            /\ 0 - hh <= bb[2] /\ bb[4] <= hh

\* C11: every dimension or size error of make_ferro_device, make_lower_pad
\* and make_upper_pad is raised before the generator created its Cell or added
\* a shape to it: no Cell of the call exists when the error is raised.
C11_ErrorBeforeCell ==
    (/\ call.fn \in {"make_ferro_device", "make_lower_pad", "make_upper_pad"}
     /\ out.raised \in {DimensionError, PadTooSmall}) => out.created = <<>>

\* ------------------------------------------------- the hierarchy collector
\* `ref.cell.name not in [cell.name for cell in lib.cells]` negated, with
\* Cell objects compared instead of their names
InLibrary_by_identity(g, c, l) == \E k \in 1..Len(l) : l[k] = c

\* `ref.cell.name not in [cell.name for cell in lib.cells]`, negated
\* (build_mask.py line 61); g is the heap of Cells, c a Cell, l is lib.cells
InLibrary(g, c, l) == \E k \in 1..Len(l) : g[l[k]].name = g[c].name

\* add_children(cell, lib): lib.add(cell), then for each reference in list
\* order, recurse into its cell unless a cell of that name is in the library.
\* st carries lib.cells and the history of the cells come upon.
RECURSIVE add_children(_, _, _), add_children_loop(_, _, _, _)
add_children(g, cell, st) ==
    add_children_loop(g, cell, 1, [st EXCEPT !.lib = Append(st.lib, cell)])
add_children_loop(g, cell, i, st) ==
    IF i > Len(g[cell].references) THEN st
    ELSE LET ref_cell == g[cell].references[i].cell
             seen == [st EXCEPT !.examined = Append(st.examined, ref_cell)]
         IN  add_children_loop(g, cell, i + 1,
                 IF ~InLibrary(g, ref_cell, seen.lib)
                 THEN add_children(g, ref_cell, seen)
                 ELSE seen)

\* the designs: Cell i may reference Cells i+1..MaxCells only (a Cell never
\* references itself, directly or transitively), several times each; names
\* are numbered in the order of first use, the root's being 1
RECURSIVE SeqsOfLen(_, _)
SeqsOfLen(S, n) ==
    IF n = 0 THEN {<<>>} ELSE {Append(q, x) : q \in SeqsOfLen(S, n - 1), x \in S}
RECURSIVE ReferenceLists(_, _)
ReferenceLists(i, budget) ==
    IF i > MaxCells THEN {<<>>}
    ELSE UNION {{<<r>> \o rest : r \in SeqsOfLen((i + 1)..MaxCells, k),
                                 rest \in ReferenceLists(i + 1, budget - k)} : k \in 0..budget}
RECURSIVE NameLists(_, _)
NameLists(i, used) ==
    IF i > MaxCells THEN {<<>>}
    ELSE UNION {{<<n>> \o rest : rest \in NameLists(i + 1, IF n > used THEN n ELSE used)}
                : n \in 1..(IF used < MaxNames THEN used + 1 ELSE MaxNames)}
Designs ==
    {[i \in 1..MaxCells |->
        Cell(<<nm[i]>>, <<>>, [k \in 1..Len(rf[i]) |-> Reference(rf[i][k], <<0, 0>>)])] :
        nm \in NameLists(1, 0), rf \in ReferenceLists(1, MaxRefs)}

FeatIdle == call = NoCall /\ out = None /\ again = NotMade

InitLib ==
    /\ config = config_py
    /\ FeatIdle
    /\ cells \in Designs
    /\ top = 1
    /\ devs = <<>>
    /\ lib = <<>>
    /\ examined = <<>>
    /\ PipeIdle

\* lib = gdstk.Library(); add_children(top, lib)
Collect ==
    /\ lib = <<>>
    /\ pc \in {"idle", "collect"}
    /\ LET st == add_children(cells, top, [lib |-> <<>>, examined |-> <<top>>])
       IN  /\ lib' = st.lib
           /\ examined' = st.examined
    /\ pc' = IF pc = "collect" THEN "flatten" ELSE pc
    /\ UNCHANGED <<featVars, cells, top, devs,
                   flat_top, mapping, idx, processed_layers, flat_cell, outfile, log>>

NextLib == Collect

SpecLib == InitLib /\ [][NextLib]_vars

\* =========================================== flatten / merge / boundary
\* The geometry kernel's polygons are kept, from the flatten on, by their shadow
\* on the x axis: the closed interval [lo, hi] under the polygon, its
\* (layer, datatype), and where the polygon came from (src, a history field).

\* a shape moved by a Reference's origin
Translate(shp, o) ==
    LET bb == <<shp.bbox[1] + o[1], shp.bbox[2] + o[2], shp.bbox[3] + o[1], shp.bbox[4] + o[2]>>
    IN  IF shp.kind = "path"
        THEN [shp EXCEPT !.bbox = bb,
                         !.points = [k \in 1..Len(shp.points) |->
                                        <<shp.points[k][1] + o[1], shp.points[k][2] + o[2]>>]]
        ELSE [shp EXCEPT !.bbox = bb, !.origin = <<shp.origin[1] + o[1], shp.origin[2] + o[2]>>]

\* Cell.flatten(): the Cell's own shapes, then those of every referenced Cell,
\* moved by the Reference's origin, recursively
RECURSIVE flatten_shapes(_, _, _), flatten_references(_, _, _, _)
flatten_shapes(g, cell, o) ==
    [k \in 1..Len(g[cell].shapes) |-> Translate(g[cell].shapes[k], o)]
        \o flatten_references(g, cell, o, 1)
flatten_references(g, cell, o, i) ==
    IF i > Len(g[cell].references) THEN <<>>
    ELSE LET ref == g[cell].references[i]
         IN  flatten_shapes(g, ref.cell, <<o[1] + ref.origin[1], o[2] + ref.origin[2]>>)
                 \o flatten_references(g, cell, o, i + 1)

Shadow(shp, src) == [layer |-> shp.layer, lo |-> shp.bbox[1], hi |-> shp.bbox[3], src |-> src]

\* flat_top = top.flatten(): its polygons and its paths, each in flatten order
flatten_top(g, root) ==
    LET all == flatten_shapes(g, root, <<0, 0>>)
        IsPath(shp) == shp.kind = "path"
        IsPolygon(shp) == shp.kind # "path"
        polys == SelectSeq(all, IsPolygon)
        paths == SelectSeq(all, IsPath)
    IN  [polygons |-> [k \in 1..Len(polys) |-> Shadow(polys[k], "design")],
         paths |-> [k \in 1..Len(paths) |-> Shadow(paths[k], "path")],
         labels |-> <<>>]

\* for path in flat_top.paths: flat_top.add(*path.to_polygons())
paths_to_polygons(ft) == [ft EXCEPT !.polygons = ft.polygons \o ft.paths]

\* mapping.keys() / mapping[ld]
HasKey(m, ld) == \E k \in 1..Len(m) : m[k].ld = ld
KeyIndex(m, ld) == CHOOSE k \in 1..Len(m) : m[k].ld = ld

\* the grouping loop into the empty dict (build_mask.py lines 70, 77-82):
\* the keys come in the order of their first polygon, and every bucket holds
\* the polygons of its key in the order of flat_top.polygons
group_by_layer(polygons) ==
    LET firsts == {i \in 1..Len(polygons) :
                      \A j \in 1..(i - 1) : polygons[j].layer # polygons[i].layer}
        nth(n) == CHOOSE i \in firsts : Cardinality({j \in firsts : j < i}) = n - 1
    IN  [n \in 1..Cardinality(firsts) |->
            LET layer_datatype == polygons[nth(n)].layer
                OfKey(polygon) == polygon.layer = layer_datatype
            IN  [ld |-> layer_datatype, polygons |-> SelectSeq(polygons, OfKey)]]

\* the union of intervals, as its maximal intervals from left to right
covers_right(P, x) == \E p \in P : p.lo <= x /\ x < p.hi
covers_left(P, x) == \E p \in P : p.lo < x /\ x <= p.hi
union_parts(P) ==
    {<<a, b>> \in {p.lo : p \in P} \X {p.hi : p \in P} :
        /\ a < b
        /\ ~covers_left(P, a)
        /\ ~covers_right(P, b)
        /\ \A x \in {p.lo : p \in P} \cup {p.hi : p \in P} : (a <= x /\ x < b) => covers_right(P, x)}
RECURSIVE sorted_parts(_)
sorted_parts(S) ==
    IF S = {} THEN <<>>
    ELSE LET first == CHOOSE u \in S : \A v \in S : u[1] <= v[1]
         IN  <<first>> \o sorted_parts(S \ {first})

\* gdstk.boolean(polygons, [], "or") left undone: the operands as they are
boolean_or_skipped(polygons, ld) == polygons

\* gdstk.boolean(polygons, [], "or", layer=ld[0], datatype=ld[1])
boolean_or(polygons, ld) ==
    LET parts == sorted_parts(union_parts({polygons[k] : k \in 1..Len(polygons)}))
    IN  [k \in 1..Len(parts) |->
            [layer |-> ld, lo |-> parts[k][1], hi |-> parts[k][2], src |-> "union"]]

RingSrc(src) ==
    CASE src = "union" -> "ring of union"
      [] src = "design" -> "ring of design polygon"
      [] src = "path" -> "ring of path polygon"
      [] OTHER -> "ring of ring"

\* geom.convert_to_boundary(polygon, width): gdstk.offset(polygon, width)
\* with the polygon taken out of it
convert_to_boundary(polygon, width) ==
    IF width <= 0 THEN <<>>
    ELSE << [layer |-> polygon.layer, lo |-> polygon.lo - width, hi |-> polygon.lo,
             src |-> RingSrc(polygon.src)],
            [layer |-> polygon.layer, lo |-> polygon.hi, hi |-> polygon.hi + width,
             src |-> RingSrc(polygon.src)] >>

\* geom.flatten(input), on a list of lists
RECURSIVE flatten(_)
flatten(input) == IF input = <<>> THEN <<>> ELSE Head(input) \o flatten(Tail(input))

\* the stages of the script from the flatten on, in its order
\* (build_mask.py lines 69-109), here with merge and boundary exchanged
StageAfter_boundary_first(stage) ==
    CASE stage = "flatten" -> "paths"
      [] stage = "paths" -> "group"
      [] stage = "group" -> "boundary"
      [] stage = "boundary" -> "merge"
      [] stage = "merge" -> "assemble"
      [] stage = "assemble" -> "write"
      [] OTHER -> "done"

\* the stages of the script from the flatten on, in its order
\* (build_mask.py lines 69-109)
StageAfter(stage) ==
    CASE stage = "flatten" -> "paths"
      [] stage = "paths" -> "group"
      [] stage = "group" -> "merge"
      [] stage = "merge" -> "boundary"
      [] stage = "boundary" -> "assemble"
      [] stage = "assemble" -> "write"
      [] OTHER -> "done"

NoLd == <<>>

Flatten ==
    /\ pc = "flatten"
    /\ flat_top' = flatten_top(cells, top)
    /\ mapping' = <<>>
    /\ log' = Append(log, <<"flatten", NoLd>>)
    /\ pc' = StageAfter(pc)
    /\ UNCHANGED <<featVars, libVars, idx, processed_layers, flat_cell, outfile>>

PathsToPolygons ==
    /\ pc = "paths"
    /\ flat_top' = paths_to_polygons(flat_top)
    /\ log' = Append(log, <<"paths", NoLd>>)
    /\ pc' = StageAfter(pc)
    /\ UNCHANGED <<featVars, libVars, mapping, idx, processed_layers, flat_cell, outfile>>

Group ==
    /\ pc = "group"
    /\ mapping' = group_by_layer(flat_top.polygons)
    /\ log' = Append(log, <<"group", NoLd>>)
    /\ pc' = StageAfter(pc)
    /\ idx' = 1
    /\ UNCHANGED <<featVars, libVars, flat_top, processed_layers, flat_cell, outfile>>

\* one turn of `for layer_datatype, polygons in mapping.items()`
Merge ==
    /\ pc = "merge"
    /\ idx <= Len(mapping)
    /\ mapping' = [mapping EXCEPT ![idx].polygons = boolean_or(@, mapping[idx].ld)]
    /\ log' = Append(log, <<"merge", mapping[idx].ld>>)
    /\ idx' = idx + 1
    /\ UNCHANGED <<featVars, libVars, pc, flat_top, processed_layers, flat_cell, outfile>>

MergeDone ==
    /\ pc = "merge"
    /\ idx > Len(mapping)
    /\ pc' = StageAfter(pc)
    /\ idx' = 1
    /\ processed_layers' = IF StageAfter(pc) = "boundary" THEN <<>> ELSE processed_layers
    /\ UNCHANGED <<featVars, libVars, flat_top, mapping, flat_cell, outfile, log>>

\* one turn of `for layer in config.layers.values()`
Boundary ==
    /\ pc = "boundary"
    /\ idx <= Len(config.layers)
    /\ LET layer == config.layers[idx]
           ld == <<layer[2], layer[3]>>
           processed == \E k \in 1..Len(processed_layers) : processed_layers[k] = ld
       IN  IF ~processed /\ layer[4] = "boundary"
           THEN IF HasKey(mapping, ld)
                THEN /\ mapping' = [mapping EXCEPT ![KeyIndex(mapping, ld)].polygons =
                           flatten([k \in 1..Len(@) |-> convert_to_boundary(@[k], config.boundary_width)])]
                     /\ log' = Append(log, <<"boundary", ld>>)
                     /\ processed_layers' = Append(processed_layers, ld)
                     /\ idx' = idx + 1
                     /\ pc' = pc
                ELSE \* mapping[ld] raises KeyError: the script ends here
                     /\ pc' = "raised"
                     /\ log' = Append(log, <<"KeyError", ld>>)
                     /\ UNCHANGED <<mapping, processed_layers, idx>>
           ELSE /\ processed_layers' = Append(processed_layers, ld)
                /\ idx' = idx + 1
                /\ UNCHANGED <<mapping, log, pc>>
    /\ UNCHANGED <<featVars, libVars, flat_top, flat_cell, outfile>>

BoundaryDone ==
    /\ pc = "boundary"
    /\ idx > Len(config.layers)
    /\ pc' = StageAfter(pc)
    /\ idx' = 1
    /\ UNCHANGED <<featVars, libVars, flat_top, mapping, processed_layers, flat_cell, outfile, log>>

\* flat_cell = gdstk.Cell("TOP") with every bucket's polygons and the labels
Assemble ==
    /\ pc = "assemble"
    /\ flat_cell' = <<Cell(<<"TOP">>,
                          flatten([k \in 1..Len(mapping) |-> mapping[k].polygons]) \o flat_top.labels,
                          <<>>)>>
    /\ log' = Append(log, <<"assemble", NoLd>>)
    /\ pc' = StageAfter(pc)
    /\ UNCHANGED <<featVars, libVars, flat_top, mapping, idx, processed_layers, outfile>>

\* flat_lib = gdstk.Library(); flat_lib.add(flat_cell); flat_lib.write_gds(outfile)
WriteGds ==
    /\ pc = "write"
    /\ outfile' = flat_cell
    /\ log' = Append(log, <<"write", NoLd>>)
    /\ pc' = StageAfter(pc)
    /\ UNCHANGED <<featVars, libVars, flat_top, mapping, idx, processed_layers, flat_cell>>

Pipeline ==
    \/ Flatten
    \/ PathsToPolygons
    \/ Group
    \/ Merge
    \/ MergeDone
    \/ Boundary
    \/ BoundaryDone
    \/ Assemble
    \/ WriteGds

\* ---------------------------------- the pipeline on any root and layer table
PhysIds == {<<10, 0>>, <<11, 0>>}
LayerNames == <<"W1", "M2", "W2", "V1", "V2">>
Modes == {"fill", "boundary"}
LayerTables ==
    UNION {{[k \in 1..n |-> <<LayerNames[k], ids[k][1], ids[k][2], modes[k]>>] :
                ids \in [1..n -> PhysIds], modes \in [1..n -> Modes]} : n \in 1..MaxLayers}
\* drawn designs: a root Cell of rectangles and wires, with or without a
\* Reference to a device Cell that holds a rectangle of its own
DrawnShapes ==
    {rectangle(um_to_str(1), um_to_str(1), <<um_to_str(x), 0>>, ld) : x \in 0..MaxStart, ld \in PhysIds}
        \cup {make_wire(config_py, <<<<um_to_str(x), 0>>, <<um_to_str(x + 1), 0>>>>, um_to_str(1), "M2") :
                  x \in 0..MaxStart}
DrawnReferences == {<<>>, <<Reference(2, <<um_to_str(1), 0>>)>>}
Roots ==
    UNION {{Cell(<<"TOP">>, shapes, refs) : shapes \in SeqsOfLen(DrawnShapes, n), refs \in DrawnReferences} :
              n \in 0..MaxShapes}
DrawnDevice == Cell(<<"DEV">>, <<rectangle(um_to_str(1), um_to_str(1), <<0, 0>>, <<10, 0>>)>>, <<>>)

InitPipe ==
    /\ \E table \in LayerTables : config = [config_py EXCEPT !.layers = table]
    /\ FeatIdle
    /\ \E root \in Roots : cells = <<root, DrawnDevice>>
    /\ top = 1
    /\ devs = <<>>
    /\ lib = <<>>
    /\ examined = <<>>
    /\ pc = "flatten"
    /\ flat_top = NoFlat
    /\ mapping = <<>>
    /\ idx = 0
    /\ processed_layers = <<>>
    /\ flat_cell = <<>>
    /\ outfile = <<>>
    /\ log = <<>>

NextPipe == Pipeline

SpecPipe == InitPipe /\ [][NextPipe]_vars

\* ================================================ composite cell builders
\* Coordinates are kept to the nanometre, the precision the library writes
\* with; a quotient that is not whole in nanometres is cut to it.

\* the defaults bound when the modules are imported: via_size = config.UVL
\* (components.py lines 11, 53, 96) and device_extent = (60, 40)
via_size_default == config_py.UVL
device_extent_default == <<um_to_str(60), um_to_str(40)>>

\* components.lower_pad, made when components is imported: the first Cell
lower_pad == 1

\* feat.make_label(text, size, origin, layer, datatype): the glyph outlines
\* of the text, centred on origin; they are kept as one box of the text
\* height (size * 11/16); the empty text gives no polygon
make_label(text, size, origin, ld) ==
    LET h == (size * 11) \div 16
    IN  IF text = "" THEN <<>>
        ELSE <<[kind |-> "text", text |-> text, layer |-> ld, size |-> <<h, h>>, origin |-> origin,
                bbox |-> <<origin[1] - h \div 2, origin[2] - h \div 2,
                           origin[1] + h \div 2, origin[2] + h \div 2>>]>>

\* the offset with the unrelated config.boundary_width read into it
pad_offset_with_boundary(cfg) == cfg.pad_device_spacing + cfg.pad_dim \div 2 + cfg.boundary_width

\* config.pad_device_spacing + config.pad_dim/2: from a terminal to its pad
pad_offset(cfg) == cfg.pad_device_spacing + cfg.pad_dim \div 2

\* the pad References and the two wires of one device placed at D.origin
\* (components.py lines 36-44 and 77-84)
Terminals(cfg, D, lower, upper) ==
    LET UP == Reference(lower_pad, <<D.origin[1] + upper[1] - pad_offset(cfg), D.origin[2] + upper[2]>>)
        LP == Reference(lower_pad, <<D.origin[1] + lower[1] + pad_offset(cfg), D.origin[2] + lower[2]>>)
        wire_LP_D == make_wire(cfg,
            route_90deg(<<D.origin[1] + lower[1], D.origin[2] + lower[2] + cfg.wire_width \div 2>>,
                        LP.origin, "|-").ret, cfg.wire_width, "W1")
        wire_UP_D == make_wire(cfg,
            route_90deg(<<D.origin[1] + upper[1], D.origin[2] + upper[2]>>, UP.origin, "-|").ret,
            cfg.wire_width, "W1")
    IN  [UP |-> UP, LP |-> LP, wire_LP_D |-> wire_LP_D, wire_UP_D |-> wire_UP_D]

\* FED2T from its second line on (components.py lines 32-50), r being what
\* make_ferro_device did
FED2T_main(cfg, base, name, mesa_size, via_size, r) ==
    LET Device == base + Len(r.created)
        D == Reference(Device, <<0, 0>>)
        t == Terminals(cfg, D, r.ret.bottom_connection, r.ret.top_connection)
        Main == Cell(<<"2T", mesa_size, via_size>>, <<t.wire_LP_D, t.wire_UP_D>>, <<t.UP, t.LP, D>>)
        label == make_label(name, um_to_str(40), <<0, D.origin[2] - pad_offset(cfg)>>, LayerOf(cfg, "label"))
    IN  IF r.raised # "none"
        THEN [created |-> r.created, raised |-> r.raised, ret |-> None]
        ELSE IF ~HasLayer(cfg, "label")
        THEN [created |-> r.created \o <<Main>>, raised |-> "KeyError", ret |-> None]
        ELSE [created |-> r.created \o <<[Main EXCEPT !.shapes = @ \o label]>>, raised |-> "none",
              ret |-> [cell |-> Device + 1]]

\* comp.FED2T(name, mesa_size, via_size, short); base is the number of Cells
\* made so far, so the Cells this call makes are base+1, base+2, ...
FED2T(cfg, base, name, mesa_size, via_size, short) ==
    FED2T_main(cfg, base, name, mesa_size, via_size,
               make_ferro_device(cfg, mesa_size, via_size, device_extent_default, short))

\* y_step of make_vector_1xN
y_step(cfg) == cfg.pad_dim + cfg.pad_dim \div 4

\* the loop of make_vector_1xN from the device of (0-based) index i on; acc
\* holds the Cells made after Main, what was added to Main, and LP.origin;
\* vector_turn is one turn of it, r being what make_ferro_device did
RECURSIVE vector_loop(_, _, _, _, _, _), vector_turn(_, _, _, _, _, _, _)
vector_loop(cfg, base, mesa_sizes, via_size, i, acc) ==
    IF i >= Len(mesa_sizes) THEN acc
    ELSE vector_turn(cfg, base, mesa_sizes, via_size, i, acc,
                     make_ferro_device(cfg, mesa_sizes[i + 1], via_size, device_extent_default, FALSE))
vector_turn(cfg, base, mesa_sizes, via_size, i, acc, r) ==
    LET Device == base + 1 + Len(acc.created) + Len(r.created)
        D == Reference(Device, <<0, i * y_step(cfg)>>)
        t == Terminals(cfg, D, r.ret.bottom_connection, r.ret.top_connection)
    IN  IF r.raised # "none"
        THEN [acc EXCEPT !.created = @ \o r.created, !.raised = r.raised]
        ELSE vector_loop(cfg, base, mesa_sizes, via_size, i + 1,
                 [created |-> acc.created \o r.created,
                  shapes |-> acc.shapes \o <<t.wire_UP_D, t.wire_LP_D>>,
                  references |-> acc.references \o <<t.LP, t.UP, D>>,
                  raised |-> "none",
                  LP |-> t.LP.origin])

\* make_vector_1xN after its loop (components.py lines 86-93), done being
\* what the loop left; the shared rail reads the loop's last i and LP, which
\* an empty mesa_sizes leaves unbound
vector_main(cfg, base, name, mesa_sizes, via_size, done) ==
    LET N == Len(mesa_sizes)
        i == N - 1
        shared_pad == rectangle((cfg.pad_dim * 2) \div 3, y_step(cfg) * N - cfg.pad_dim,
                          <<done.LP[1],
                            cfg.pad_device_spacing + (y_step(cfg) * i - cfg.pad_dim \div 2) \div 2>>,
                          LayerOf(cfg, "W1"))
        label == make_label(name, um_to_str(40), <<0, 0 - pad_offset(cfg)>>, LayerOf(cfg, "label"))
        Main(shapes) == Cell(<<"Vector", N, mesa_sizes, via_size>>, shapes, done.references)
    IN  IF done.raised # "none"
        THEN [created |-> <<Main(done.shapes)>> \o done.created, raised |-> done.raised, ret |-> None]
        ELSE IF N = 0
        THEN [created |-> <<Main(<<>>)>>, raised |-> "NameError", ret |-> None]
        ELSE IF ~HasLayer(cfg, "label")
        THEN [created |-> <<Main(done.shapes \o <<shared_pad>>)>> \o done.created,
              raised |-> "KeyError", ret |-> None]
        ELSE [created |-> <<Main(done.shapes \o <<shared_pad>> \o label)>> \o done.created,
              raised |-> "none", ret |-> [cell |-> base + 1]]

\* comp.make_vector_1xN(name, mesa_sizes, via_size): Main is made first, then
\* the devices
make_vector_1xN(cfg, base, name, mesa_sizes, via_size) ==
    vector_main(cfg, base, name, mesa_sizes, via_size,
                vector_loop(cfg, base, mesa_sizes, via_size, 0,
                    [created |-> <<>>, shapes |-> <<>>, references |-> <<>>, raised |-> "none",
                     LP |-> <<0, 0>>]))

\* the four make_ferro_device calls of make_xbar_2x2, in order, stopping
\* at the first that raises; xbar_device takes in what one call did
RECURSIVE xbar_devices(_, _, _, _, _), xbar_device(_, _, _, _, _, _)
xbar_devices(cfg, sizes, via_size, k, acc) ==
    IF k > Len(sizes) THEN acc
    ELSE xbar_device(cfg, sizes, via_size, k, acc,
                     make_ferro_device(cfg, sizes[k], via_size, device_extent_default, FALSE))
xbar_device(cfg, sizes, via_size, k, acc, r) ==
    IF r.raised # "none"
    THEN [acc EXCEPT !.created = @ \o r.created, !.raised = r.raised]
    ELSE xbar_devices(cfg, sizes, via_size, k + 1,
             [created |-> acc.created \o r.created,
              at |-> Append(acc.at, Len(acc.created) + Len(r.created)),
              lower |-> Append(acc.lower, r.ret.bottom_connection),
              upper |-> Append(acc.upper, r.ret.top_connection),
              raised |-> "none"])

\* make_xbar_2x2 from its References on (components.py lines 120-175), made
\* being what the four device calls left
xbar_main(cfg, base, name, mesa_sizes, via_size, made) ==
    LET sep == cfg.pad_dim \div 4
        P == cfg.pad_dim
        W == cfg.wire_width
        lower_NW == made.lower[1]
        lower_NE == made.lower[2]
        lower_SW == made.lower[3]
        lower_SE == made.lower[4]
        upper_NW == made.upper[1]
        upper_NE == made.upper[2]
        upper_SW == made.upper[3]
        upper_SE == made.upper[4]
        D_NW == Reference(base + 1 + made.at[1], <<0, sep + P>>)
        D_NE == Reference(base + 1 + made.at[2], <<sep * 2, sep + P>>)
        D_SW == Reference(base + 1 + made.at[3], <<0, 0>>)
        D_SE == Reference(base + 1 + made.at[4], <<sep * 2, 0>>)
        UP_1 == Reference(lower_pad, <<0 - (sep * 3) \div 2 - P \div 2, sep + P>>)
        UP_2 == Reference(lower_pad, <<(sep * 3) \div 2 + P, 0>>)
        LP_1 == Reference(lower_pad, <<0 - (sep * 3) \div 2 - P \div 2, 0>>)
        LP_2 == Reference(lower_pad, <<(sep * 3) \div 2 + P, sep + P>>)
        \* UP_1
        temp_point_a == <<D_NW.origin[1] + upper_NW[1], D_NW.origin[2] + upper_NW[2] + P \div 4>>
        wire_UP_NW == make_wire(cfg,
            route_90deg(<<D_NW.origin[1] + upper_NW[1], D_NW.origin[2] + upper_NW[2]>>, UP_1.origin, "-|").ret,
            W, "W1")
        wire_UP_NE == make_wire(cfg,
            route_90deg(<<D_NE.origin[1] + upper_NE[1], D_NE.origin[2] + upper_NE[2]>>, temp_point_a, "|-").ret
                \o route_90deg(temp_point_a, UP_1.origin, "|-").ret,
            W, "W1")
        \* UP_2
        temp_point_b == <<D_SE.origin[1] + upper_SE[1], D_SW.origin[2] + upper_SW[2] - P \div 4>>
        wire_UP_SW == make_wire(cfg,
            route_90deg(<<D_SW.origin[1] + upper_SW[1], D_SW.origin[2] + upper_SW[2]>>, temp_point_b, "|-").ret,
            W, "W1")
        temp_point2_b == <<D_SE.origin[1] - 3 * upper_SE[1], 0>>
        wire_UP_SE == make_wire(cfg,
            <<<<D_SE.origin[1] + upper_SE[1], D_SE.origin[2] + upper_SE[2]>>, temp_point_b>>
                \o route_90deg(temp_point_b, temp_point2_b, "-|").ret \o <<UP_2.origin>>,
            W, "W1")
        \* LP_1
        temp_point_c == <<D_NW.origin[1] + lower_NW[1], (um_to_str(25) + P) \div 2>>
        wire_LP_NW == make_wire(cfg,
            route_90deg(<<D_NW.origin[1] + lower_NW[1], D_NW.origin[2] + lower_NW[2]>>, temp_point_c, "|-").ret,
            W, "W1")
        wire_LP_NE == make_wire(cfg,
            route_90deg(<<D_SW.origin[1] + lower_SW[1], D_SW.origin[2] + lower_SW[2]>>, temp_point_c, "|-").ret,
            W, "W1")
        temp_point2_c == <<D_NW.origin[1] - um_to_str(20), LP_1.origin[2]>>
        wire_LP_pad == make_wire(cfg,
            route_90deg(temp_point_c, temp_point2_c, "-|").ret \o <<LP_1.origin>>, W, "W1")
        \* LP_2
        wire_LP_2 == make_wire(cfg,
            <<LP_2.origin,
              <<D_NE.origin[1] + lower_NE[1], D_NE.origin[2] + lower_NE[2]>>,
              <<D_SE.origin[1] + lower_SE[1], D_SE.origin[2] + lower_SE[2]>>>>,
            W, "W1")
        wires == <<wire_UP_NW, wire_UP_NE, wire_UP_SW, wire_UP_SE,
                   wire_LP_NW, wire_LP_NE, wire_LP_pad, wire_LP_2>>
        label == make_label(name, um_to_str(40), <<sep, 0 - pad_offset(cfg)>>, LayerOf(cfg, "label"))
        Main(shapes, references) == Cell(<<"XBAR", mesa_sizes, via_size>>, shapes, references)
        all == <<D_NW, D_NE, D_SW, D_SE, LP_1, LP_2, UP_1, UP_2>>
    IN  IF made.raised # "none"
        THEN [created |-> <<Main(<<>>, <<>>)>> \o made.created, raised |-> made.raised, ret |-> None]
        ELSE IF ~HasLayer(cfg, "label")
        THEN [created |-> <<Main(wires, all)>> \o made.created, raised |-> "KeyError", ret |-> None]
        ELSE [created |-> <<Main(wires \o label, all)>> \o made.created, raised |-> "none",
              ret |-> [cell |-> base + 1]]

\* comp.make_xbar_2x2(name, mesa_sizes, via_size); mesa_sizes is
\* <<<<NW, NE>>, <<SW, SE>>>>; Main is made first, then the four devices
make_xbar_2x2(cfg, base, name, mesa_sizes, via_size) ==
    xbar_main(cfg, base, name, mesa_sizes, via_size,
              xbar_devices(cfg, <<mesa_sizes[1][1], mesa_sizes[1][2], mesa_sizes[2][1], mesa_sizes[2][2]>>,
                           via_size, 1,
                           [created |-> <<>>, at |-> <<>>, lower |-> <<>>, upper |-> <<>>, raised |-> "none"]))

\* ------------------------------------------- calls of composite builders
\* the Cell tree under a Cell: its name, its shapes, and under every
\* Reference the origin and the tree of the referenced Cell
RECURSIVE Tree(_, _)
Tree(g, c) ==
    [name |-> g[c].name, shapes |-> g[c].shapes,
     references |-> [k \in 1..Len(g[c].references) |->
                        [origin |-> g[c].references[k].origin, cell |-> Tree(g, g[c].references[k].cell)]]]

\* a call of a composite builder, made with config as it is then
Apply(cfg, base, c) ==
    CASE c.fn = "FED2T" -> FED2T(cfg, base, c.name, c.mesa_size, c.via_size, c.short)
      [] c.fn = "make_vector_1xN" -> make_vector_1xN(cfg, base, c.name, c.mesa_sizes, c.via_size)
      [] c.fn = "make_xbar_2x2" -> make_xbar_2x2(cfg, base, c.name, c.mesa_sizes, c.via_size)

\* what the call did, the returned Cell given as its tree
Outcome(heap, r) ==
    [created |-> r.created, raised |-> r.raised,
     ret |-> IF r.raised = "none" THEN [cell |-> Tree(heap \o r.created, r.ret.cell)] ELSE None]
Returned(cfg, heap, c) == Outcome(heap, Apply(cfg, Len(heap), c))

\* import components: lower_pad = feat.make_lower_pad(config.pad_dim), with
\* config as config.py leaves it
import_components(cfg) == make_lower_pad(cfg, cfg.pad_dim, cfg.pad_dim, um_to_str(30), TRUE)

\* the values assigned to config after the import: those of config.py, those
\* of build_mask.py, and others
PadDims == {um_to_str(50), um_to_str(100)}
UVLs == {um_to_str(2), um_to_str(3)}
WireWidths == {um_to_str(3), um_to_str(4)}
BoundaryWidths == {um_to_str(1), um_to_str(2)}
layers_unlabelled == SubSeq(layers_default, 1, Len(layers_default) - 1)
Tables == {layers_default, layers_unlabelled}
VectorSizes == UNION {SeqsOfLen({um_to_str(5)}, n) : n \in 0..MaxVector}

InitComp ==
    /\ config = config_py
    /\ call = NoCall
    /\ out = None
    /\ again = NotMade
    /\ cells = import_components(config_py).created
    /\ lib = <<>>
    /\ examined = <<>>
    /\ top = 0
    /\ devs = <<>>
    /\ PipeIdle

Assign_pad_dim ==
    /\ again = NotMade
    /\ \E v \in PadDims : config' = [config EXCEPT !.pad_dim = v]
    /\ UNCHANGED <<call, out, again, libVars, pipeVars>>

Assign_UVL ==
    /\ again = NotMade
    /\ \E v \in UVLs : config' = [config EXCEPT !.UVL = v]
    /\ UNCHANGED <<call, out, again, libVars, pipeVars>>

Assign_wire_width ==
    /\ again = NotMade
    /\ \E v \in WireWidths : config' = [config EXCEPT !.wire_width = v]
    /\ UNCHANGED <<call, out, again, libVars, pipeVars>>

Assign_boundary_width ==
    /\ again = NotMade
    /\ \E v \in BoundaryWidths : config' = [config EXCEPT !.boundary_width = v]
    /\ UNCHANGED <<call, out, again, libVars, pipeVars>>

Assign_layers ==
    /\ again = NotMade
    /\ \E v \in Tables : config' = [config EXCEPT !.layers = v]
    /\ UNCHANGED <<call, out, again, libVars, pipeVars>>

\* a first call records its arguments and config as it was
Call_FED2T ==
    /\ call = NoCall
    /\ \E mesa_size \in {um_to_str(1), um_to_str(20), um_to_str(30)}, short \in BOOLEAN :
         LET c == [fn |-> "FED2T", name |-> IF short THEN "SHORT" ELSE "FE", mesa_size |-> mesa_size,
                   via_size |-> via_size_default, short |-> short, config |-> config]
         IN  /\ call' = c
             /\ out' = Returned(config, cells, c)
             /\ cells' = cells \o out'.created
    /\ UNCHANGED <<config, again, lib, examined, top, devs, pipeVars>>

Call_make_vector_1xN ==
    /\ call = NoCall
    /\ \E mesa_sizes \in VectorSizes :
         LET c == [fn |-> "make_vector_1xN", name |-> "VECTOR", mesa_sizes |-> mesa_sizes,
                   via_size |-> via_size_default, config |-> config]
         IN  /\ call' = c
             /\ out' = Returned(config, cells, c)
             /\ cells' = cells \o out'.created
    /\ UNCHANGED <<config, again, lib, examined, top, devs, pipeVars>>

Call_make_xbar_2x2 ==
    /\ call = NoCall
    /\ LET c == [fn |-> "make_xbar_2x2", name |-> "XBAR",
                 mesa_sizes |-> <<<<um_to_str(1), um_to_str(2)>>, <<um_to_str(3), um_to_str(4)>>>>,
                 via_size |-> via_size_default, config |-> config]
       IN  /\ call' = c
           /\ out' = Returned(config, cells, c)
           /\ cells' = cells \o out'.created
    /\ UNCHANGED <<config, again, lib, examined, top, devs, pipeVars>>

\* the same builder called once more with the same arguments
CallAgain ==
    /\ call # NoCall
    /\ again = NotMade
    /\ again' = Returned(config, cells, call)
    /\ cells' = cells \o again'.created
    /\ UNCHANGED <<config, call, out, lib, examined, top, devs, pipeVars>>

NextComp ==
    \/ Assign_pad_dim
    \/ Assign_UVL
    \/ Assign_wire_width
    \/ Assign_boundary_width
    \/ Assign_layers
    \/ Call_FED2T
    \/ Call_make_vector_1xN
    \/ Call_make_xbar_2x2
    \/ CallAgain

SpecComp == InitComp /\ [][NextComp]_vars

\* ------------------------------------------------------ the build script
\* build_mask.py from its imports to write_gds.  What a user of the script
\* edits is drawn from small sets: config.py's pad_dim, the layer table the
\* script assigns, and the sizes it passes to the builders.

\* an exception no one catches ends the script
Proceed_past_error(r, next) == next

Proceed(r, next) == IF r.raised # "none" THEN "raised" ELSE next

layers_without(name) ==
    LET keep == {k \in 1..Len(layers_default) : layers_default[k][1] # name}
        nth(n) == CHOOSE k \in keep : Cardinality({j \in keep : j < k}) = n - 1
    IN  [n \in 1..Cardinality(keep) |-> layers_default[nth(n)]]
ConfigFiles == {config_py, [config_py EXCEPT !.pad_dim = um_to_str(30)]}
ScriptTables == {layers_default, layers_without("label"), layers_without("V4")}
ScriptVectors == VectorSizes \ {<<>>}

InitMask ==
    /\ config \in ConfigFiles
    /\ call = NoCall
    /\ out = None
    /\ again = NotMade
    /\ LibIdle
    /\ pc = "import"
    /\ flat_top = NoFlat
    /\ mapping = <<>>
    /\ idx = 0
    /\ processed_layers = <<>>
    /\ flat_cell = <<>>
    /\ outfile = <<>>
    /\ log = <<>>

\* import components (build_mask.py line 8): lower_pad is made
Import ==
    /\ pc = "import"
    /\ LET r == import_components(config)
       IN  /\ call' = [fn |-> "make_lower_pad", size_x |-> config.pad_dim]
           /\ out' = r
           /\ cells' = r.created
           /\ pc' = Proceed(r, "config")
    /\ UNCHANGED <<config, again, lib, examined, top, devs,
                   flat_top, mapping, idx, processed_layers, flat_cell, outfile, log>>

\* the assignments to config (build_mask.py lines 14-34)
AssignConfig ==
    /\ pc = "config"
    /\ \E table \in ScriptTables :
         config' = [config EXCEPT !.layers = table, !.UVL = um_to_str(2), !.EBL = 50,
                                  !.wire_width = um_to_str(3), !.boundary_width = um_to_str(1),
                                  !.pad_dim = um_to_str(100)]
    /\ pc' = "dev0"
    /\ UNCHANGED <<call, out, again, libVars,
                   flat_top, mapping, idx, processed_layers, flat_cell, outfile, log>>

\* a builder call of the script: the Cells it made join the heap, and the
\* Cell it returned is kept unless it raised
Built(c, r, next) ==
    /\ call' = c
    /\ out' = r
    /\ cells' = cells \o r.created
    /\ devs' = IF r.raised = "none" THEN Append(devs, r.ret.cell) ELSE devs
    /\ pc' = Proceed(r, next)
    /\ UNCHANGED <<config, again, lib, examined, top,
                   flat_top, mapping, idx, processed_layers, flat_cell, outfile, log>>

\* dev0 = comp.FED2T("FE", 20)
Build_dev0 ==
    /\ pc = "dev0"
    /\ \E mesa_size \in {um_to_str(10), um_to_str(20), um_to_str(30)} :
         Built([fn |-> "FED2T", name |-> "FE", mesa_size |-> mesa_size],
               FED2T(config, Len(cells), "FE", mesa_size, via_size_default, FALSE), "dev1")

\* dev1 = comp.make_vector_1xN("VECTOR", np.ones(25)*5), of fewer devices
Build_dev1 ==
    /\ pc = "dev1"
    /\ \E mesa_sizes \in ScriptVectors :
         Built([fn |-> "make_vector_1xN", name |-> "VECTOR", mesa_sizes |-> mesa_sizes],
               make_vector_1xN(config, Len(cells), "VECTOR", mesa_sizes, via_size_default), "dev2")

\* dev2 = comp.make_xbar_2x2("XBAR", [[1, 2], [3, 4]])
Build_dev2 ==
    /\ pc = "dev2"
    /\ \E nw \in {um_to_str(1), um_to_str(2)}, se \in {um_to_str(4), um_to_str(30)} :
         LET mesa_sizes == <<<<nw, um_to_str(2)>>, <<um_to_str(3), se>>>>
         IN  Built([fn |-> "make_xbar_2x2", name |-> "XBAR", mesa_sizes |-> mesa_sizes],
                   make_xbar_2x2(config, Len(cells), "XBAR", mesa_sizes, via_size_default), "short0")

\* short0 = comp.FED2T("SHORT", 1, short=True)
Build_short0 ==
    /\ pc = "short0"
    /\ Built([fn |-> "FED2T", name |-> "SHORT", mesa_size |-> um_to_str(1)],
             FED2T(config, Len(cells), "SHORT", um_to_str(1), via_size_default, TRUE), "top")

\* top = gdstk.Cell("TOP") and its four References (build_mask.py lines 46-50)
Build_top ==
    /\ pc = "top"
    /\ LET at == <<<<0, 0>>, <<um_to_str(300), 0>>, <<um_to_str(600), 0>>, <<um_to_str(950), 0>>>>
       IN  cells' = Append(cells, Cell(<<"TOP">>, <<>>, [k \in 1..Len(devs) |-> Reference(devs[k], at[k])]))
    /\ top' = Len(cells) + 1
    /\ pc' = "collect"
    /\ UNCHANGED <<featVars, lib, examined, devs,
                   flat_top, mapping, idx, processed_layers, flat_cell, outfile, log>>

NextMask ==
    \/ Import
    \/ AssignConfig
    \/ Build_dev0
    \/ Build_dev1
    \/ Build_dev2
    \/ Build_short0
    \/ Build_top
    \/ Collect
    \/ Flatten
    \/ PathsToPolygons
    \/ Group
    \/ Merge
    \/ MergeDone
    \/ Boundary
    \/ BoundaryDone
    \/ Assemble
    \/ WriteGds

SpecMask == InitMask /\ [][NextMask]_vars

\* ==================================================== claims on collector
RECURSIVE ReachableFrom(_, _)
ReachableFrom(g, c) ==
    {c} \cup UNION {ReachableFrom(g, g[c].references[i].cell) : i \in 1..Len(g[c].references)}
FirstWithName(g, q, n) == q[CHOOSE i \in 1..Len(q) : g[q[i]].name = n /\ \A j \in 1..(i - 1) : g[q[j]].name # n]

\* C4: after add_children(root, lib) on an empty library every cell name is in
\* the library at most once; of the Cells of one name the collector comes upon
\* (depth first, each reference list in order), the first is the one kept; and
\* the library has at most one entry per distinct name, whatever the number of
\* references to a shared Cell.
C4_OneEntryPerNameFirstKept ==
    lib # <<>> =>
        /\ \A i, j \in 1..Len(lib) : cells[lib[i]].name = cells[lib[j]].name => i = j
        /\ \A i \in 1..Len(lib) : lib[i] = FirstWithName(cells, examined, cells[lib[i]].name)
        /\ \A i \in 1..Len(examined) : \E k \in 1..Len(lib) : cells[lib[k]].name = cells[examined[i]].name
        /\ Len(lib) <= Cardinality({cells[c].name : c \in ReachableFrom(cells, top)})

\* two distinct Cells of one name were come upon, the first of them is kept and
\* the second is not, and a kept Cell is referenced three times
C4_Witness ==
    /\ lib # <<>>
    /\ \E i, j \in 1..Len(examined) :
          /\ i < j
          /\ examined[i] # examined[j]
          /\ cells[examined[i]].name = cells[examined[j]].name
          /\ \E k \in 1..Len(lib) : lib[k] = examined[i]
          /\ \A k \in 1..Len(lib) : lib[k] # examined[j]
    /\ \E c \in 2..MaxCells :
          /\ \E k \in 1..Len(lib) : lib[k] = c
          /\ Cardinality({i \in 1..Len(examined) : examined[i] = c}) >= 2

\* C13: after add_children(root, lib) on an empty library, for every finite
\* reference graph, graphs in which two distinct Cells carry one name
\* included, every cell name reachable from root through references is in
\* the library.
C13_EveryReachableNameCollected ==
    lib # <<>> =>
        \A c \in ReachableFrom(cells, top) : \E k \in 1..Len(lib) : cells[lib[k]].name = cells[c].name

\* ===================================================== claims on pipeline
\* the polygons of the flattened design on a physical id, and what a bucket holds
DesignOn(ld) == {flat_top.polygons[k] : k \in {j \in 1..Len(flat_top.polygons) : flat_top.polygons[j].layer = ld}}
Bucket(ld) == mapping[KeyIndex(mapping, ld)].polygons
Intervals(polygons) == {<<polygons[k].lo, polygons[k].hi>> : k \in 1..Len(polygons)}
RingsOf(parts, width) ==
    {<<u[1] - width, u[1]>> : u \in parts} \cup {<<u[2], u[2] + width>> : u \in parts}
Count(stage, ld) == Cardinality({i \in 1..Len(log) : log[i] = <<stage, ld>>})
BoundaryMode(ld) ==
    \E k \in 1..Len(config.layers) :
        <<config.layers[k][2], config.layers[k][3]>> = ld /\ config.layers[k][4] = "boundary"
BoundaryPassOver == pc \in {"assemble", "write", "done"}

\* C5: after the boundary pass, whatever the order and aliasing of the layer
\* table, the bucket of every physical id that some logical layer maps to with
\* mode "boundary" holds the boundary ring of its merged polygons, converted
\* exactly once; every other bucket holds the merged fill.
C5_BoundaryForEveryBoundaryId ==
    BoundaryPassOver =>
        \A ld \in PhysIds : HasKey(mapping, ld) =>
            IF BoundaryMode(ld)
            THEN /\ Count("boundary", ld) = 1
                 /\ Intervals(Bucket(ld)) = RingsOf(union_parts(DesignOn(ld)), config.boundary_width)
            ELSE /\ Count("boundary", ld) = 0
                 /\ Intervals(Bucket(ld)) = union_parts(DesignOn(ld))

\* C6: in every run, the boundary conversion of a bucket comes strictly after
\* the merge of that bucket, and after the flatten and the grouping; the ring
\* is computed from the polygons of the merged union, never from an unmerged
\* polygon of the design.
C6_BoundaryAfterMerge ==
    /\ \A i \in 1..Len(log) : log[i][1] = "boundary" =>
          /\ \E j \in 1..(i - 1) : log[j] = <<"merge", log[i][2]>>
          /\ \E j \in 1..(i - 1) : log[j] = <<"flatten", NoLd>>
          /\ \E j \in 1..(i - 1) : log[j] = <<"group", NoLd>>
          /\ \A j \in (i + 1)..Len(log) : log[j] # <<"merge", log[i][2]>>
    /\ \A k \in 1..Len(mapping) : \A n \in 1..Len(mapping[k].polygons) :
          mapping[k].polygons[n].src \in {"design", "path", "union", "ring of union"}
    /\ \A k \in 1..Len(mapping) : Count("boundary", mapping[k].ld) > 0 =>
          Intervals(mapping[k].polygons)
              = RingsOf(union_parts(DesignOn(mapping[k].ld)), config.boundary_width)

\* a finished run in which two polygons of the design were merged into one
\* part and the ring was taken of that part
C6_Witness ==
    /\ pc = "done"
    /\ \E k \in 1..Len(mapping) :
          /\ Count("boundary", mapping[k].ld) = 1
          /\ Cardinality(DesignOn(mapping[k].ld)) = 2
          /\ Cardinality(union_parts(DesignOn(mapping[k].ld))) = 1
          /\ Len(mapping[k].polygons) = 2

\* =========================================== claims on composite builders
\* what a builder reads of config when called
ReadConfig(cfg) ==
    <<cfg.UVL, cfg.EBL, cfg.wire_width, cfg.pad_dim, cfg.pad_device_spacing, cfg.layers>>

C15_BoundaryPassNeverFails ==
    /\ pc # "raised"
    /\ \A i \in 1..Len(log) : log[i][1] # "KeyError"

\* the References of a returned vector: its devices and its bottom pads
\* (the pads to the right of the devices, which stand at x = 0), and its
\* rectangles
VectorDevices(Main) ==
    {k \in 1..Len(Main.references) : Main.references[k].cell.name[1] = "FerroelectricDevice"}
BottomPads(Main) ==
    {k \in 1..Len(Main.references) :
        Main.references[k].cell.name[1] = "LowerPad" /\ Main.references[k].origin[1] > 0}
Rails(Main) == {k \in 1..Len(Main.shapes) : Main.shapes[k].kind = "rectangle"}

\* C14: for every non-empty sequence of N mesa sizes, make_vector_1xN places
\* device i at vertical offset i*(pad_dim + pad_dim/4) and adds exactly one
\* shared rail rectangle on the lower-wiring layer, whose x centre is the x of
\* the bottom pads and whose vertical interval contains the vertical extent
\* of every bottom pad, from the bottom edge of the pad of device 0 to the top
\* edge of the pad of device N-1.
C14_RailSpansBottomPads ==
    (call.fn = "make_vector_1xN" /\ out.raised = "none") =>
        LET Main == out.ret.cell
            N == Len(call.mesa_sizes)
            P == call.config.pad_dim
        IN  /\ {Main.references[k].origin : k \in VectorDevices(Main)}
                  = {<<0, i * (P + P \div 4)>> : i \in 0..(N - 1)}
            /\ Cardinality(BottomPads(Main)) = N
            /\ Cardinality(Rails(Main)) = 1
            /\ \A r \in Rails(Main) :
                  /\ Main.shapes[r].layer = LayerOf(call.config, "W1")
                  /\ \A b \in BottomPads(Main) :
                        LET pad == Main.references[b]
                            bb == BBoxOf(pad.cell.shapes)
                        IN  /\ Main.shapes[r].origin[1] = pad.origin[1]
                            /\ Main.shapes[r].bbox[2] <= pad.origin[2] + bb[2]
                            /\ pad.origin[2] + bb[4] <= Main.shapes[r].bbox[4]

\* ================================================ claims on build script
BuilderRaised == call # NoCall /\ out.raised # "none"
Ran(stage) == \E i \in 1..Len(log) : log[i][1] = stage
Before(a, b) ==
    \A j \in 1..Len(log) : log[j][1] = b => \E i \in 1..(j - 1) : log[i][1] = a

\* C7: the layout file is written only after every builder, the collector
\* and the flatten, group, merge, boundary and assemble stages have completed
\* without error; once a builder has raised, the run never reaches the
\* flatten or the merge and no file is written.
C7_NoPartialMask ==
    /\ BuilderRaised =>
          /\ pc = "raised"
          /\ ~Ran("flatten") /\ ~Ran("group") /\ ~Ran("merge")
          /\ flat_top = NoFlat /\ mapping = <<>> /\ flat_cell = <<>>
          /\ outfile = <<>>
    /\ pc = "raised" => outfile = <<>>
    /\ outfile # <<>> =>
          /\ ~BuilderRaised
          /\ Len(devs) = 4 /\ top # 0 /\ lib # <<>>
          /\ ~Ran("KeyError")
          /\ Before("flatten", "paths") /\ Before("paths", "group") /\ Before("group", "merge")
          /\ Before("merge", "assemble") /\ Before("assemble", "write")
          /\ \A k \in 1..Len(mapping) : \E i \in 1..Len(log) : log[i] = <<"merge", mapping[k].ld>>
          /\ Ran("write")
          /\ \A i \in 1..Len(log) : log[i][1] = "boundary" =>
                \E j \in (i + 1)..Len(log) : log[j][1] = "assemble"
          /\ outfile = flat_cell

\* a run that built the four devices, collected, went through every stage
\* and wrote the file
C7_Witness ==
    /\ pc = "done"
    /\ outfile # <<>>
    /\ Len(devs) = 4
    /\ Ran("boundary")
    /\ Len(outfile[1].shapes) > 0


\* the size along x of the pad Cell the builders place, and the pads and
\* devices a built Cell refers to
PlacedPadSize == cells[lower_pad].shapes[1].size[1]
PadsOf(Main) == {k \in 1..Len(Main.references) : Main.references[k].cell = lower_pad}
DevicesOf(Main) == {k \in 1..Len(Main.references) : Main.references[k].cell # lower_pad}

\* C12: in every cell built by FED2T and make_vector_1xN during a mask build,
\* each pad is centred pad_device_spacing plus half the size of the pad Cell
\* actually placed away from its device terminal, left of the top terminal or
\* right of the bottom terminal: the size of the shared lower_pad Cell equals
\* the config.pad_dim the offsets are computed with, for the import and the
\* assignments of build_mask.
C12_PadsHalfAPadFromTerminal ==
    (call.fn \in {"FED2T", "make_vector_1xN"} /\ out.raised = "none") =>
        LET Main == cells[out.ret.cell]
            upper == top_connection_of(config, via_size_default, device_extent_default)
            lower == via_centre_of(config, via_size_default, device_extent_default)
            off == config.pad_device_spacing + PlacedPadSize \div 2
        IN  /\ PlacedPadSize = config.pad_dim
            /\ \A p \in PadsOf(Main) : \E d \in DevicesOf(Main) :
                  LET P == Main.references[p].origin
                      D == Main.references[d].origin
                  IN  /\ P[2] = D[2]
                      /\ \/ P[1] = D[1] + upper[1] - off
                         \/ P[1] = D[1] + lower[1] + off


====
